---- MODULE Spec2Model ----
(***************************************************************************)
(* Model of UnityExtractor (src/src/main.py, src/src/gui.py).              *)
(*                                                                         *)
(* A path is a record [dir, stem, ext]: the directory components, the file *)
(* stem and the extension (with its dot).  A file is a record              *)
(* [zip, data, entries, big, loads, objs]: zip tells whether               *)
(* zipfile.ZipFile can open it, data is the content of a plain file,       *)
(* entries is the ZIP member list (a sequence of [path, file]) of an       *)
(* archive, big tells whether the file is larger than 1 KB, loads whether  *)
(* UnityPy.load accepts it, and objs is the object list UnityPy reads from *)
(* it.  A directory tree is a function from the paths of its files to      *)
(* files.                                                                  *)
(***************************************************************************)
EXTENDS Integers, Sequences, FiniteSets, TLC

VARIABLES
    apk,          \* the file at APKExtractorCore.apk_path
    temp,         \* the files under temp_dir (staging folders excluded)
    staged,       \* stems s such that temp_dir/_nested_<s> exists
    nested_apks,  \* local list nested_apks of _extract_apk_contents
    i,            \* index of the main extraction loop (1-based)
    j,            \* index of the nested-APK loop (1-based)
    opened,       \* how many times zipfile.ZipFile opened an archive
    pc,           \* position of the run
    cb,           \* TRUE when progress_callback and log_callback are supplied
    unitypy,      \* UNITYPY_AVAILABLE
    pillow,       \* PILLOW_AVAILABLE
    log,          \* the warnings and errors handed to log_callback
    out,          \* the files under output_dir (temp_dir excluded): who wrote each
    stats,        \* APKExtractorCore.stats
    processed,    \* the Data files and AssetBundles taken up, in order
    reports,      \* the reports under output_dir/reports and the statistics in them
    write_failed, \* which report write raised, if any
    ret,          \* what extract_apk returned
    first,        \* the outcome of the run made with callbacks, once it is over
    apk_path,     \* APKExtractorGUI.apk_path
    output_dir,   \* APKExtractorGUI.output_dir (gui.py)
    output_path_edit, \* the text of APKExtractorGUI.output_path_edit (main.py)
    enabled,      \* isEnabled() of the window's widgets, by attribute name
    threads,      \* every ExtractionThread started; the last is the window's
    queue,        \* the signals workers emitted, not yet delivered to the window
    fs,           \* which result folders exist on disk, by location
    results_list, \* the items of APKExtractorGUI.results_list
    slot,         \* the completion or error slot that ran, with its arguments,
                  \* as long as no other slot of the window ran after it
    src_dir,      \* the files under src_dir of a _merge_directories call
    dst_dir,      \* the files under dst_dir of that call
    merge_args    \* what the two folders held when the call was made

unpackVars == <<apk, temp, staged, nested_apks, i, j, opened>>
coreVars == <<out, stats, processed, reports, write_failed, ret>>
guiVars == <<apk_path, output_dir, output_path_edit, enabled, threads, queue,
             fs, results_list, slot>>
mergeVars == <<src_dir, dst_dir, merge_args>>
envVars == <<cb, unitypy, pillow, first, guiVars, mergeVars>>
vars == <<unpackVars, pc, envVars, log, coreVars>>

----------------------------------------------------------------------------
(* Bounds of the input universe *)

MaxFiles == 3     \* members of the APK, counted over all nesting levels
MaxDepth == 2     \* how deep archives are nested inside the APK

Data == {"d1", "d2"}

P(d, s, e) == [dir |-> d, stem |-> s, ext |-> e]

ApkNames == {P(<<>>, "n", ".apk"), P(<<>>, "m", ".apk")}
PlainNames == {P(<<>>, "f", "")}
Names == ApkNames \cup PlainNames

PlainFile(d) ==
    [zip |-> FALSE, data |-> d, entries |-> <<>>,
     big |-> FALSE, loads |-> FALSE, objs |-> <<>>]
ZipFile(es) ==
    [zip |-> TRUE, data |-> "", entries |-> es,
     big |-> FALSE, loads |-> FALSE, objs |-> <<>>]
Entry(p, f) == [path |-> p, file |-> f]

RECURSIVE Forest(_, _), EntryOfSize(_, _)
\* member lists with exactly n members over all levels, nested at most d deep
Forest(n, d) ==
    IF n = 0 THEN {<<>>}
    ELSE UNION {{<<e>> \o r : e \in EntryOfSize(k, d), r \in Forest(n - k, d)}
                : k \in 1..n}
\* one member that accounts for exactly k members (itself and what it holds)
EntryOfSize(k, d) ==
    IF k = 1
    THEN {Entry(p, PlainFile(x)) : p \in Names, x \in Data}
         \cup (IF d >= 1 THEN {Entry(p, ZipFile(<<>>)) : p \in ApkNames} ELSE {})
    ELSE IF d >= 1
         THEN {Entry(p, ZipFile(es)) : p \in ApkNames, es \in Forest(k - 1, d - 1)}
         ELSE {}

ApkInputs ==
    {ZipFile(es) : es \in UNION {Forest(n, MaxDepth) : n \in 0..MaxFiles}}
    \cup {PlainFile("d1")}

----------------------------------------------------------------------------
(* The APKs of a Unity application: containers and loose resources *)

MaxItems == 2     \* members of the APK and Unity objects in them, together

Obj(t, ok, n) == [type |-> t, ok |-> ok, name |-> n]

\* objects UnityPy lists in a container; ok: obj.read() returns and the mesh
\* exports to text (the texture has an image)
Objects ==
    {Obj(t, TRUE, n) : t \in {"Mesh", "Texture2D"}, n \in {"a_b", "a/b"}}
    \cup {Obj(t, TRUE, "a_b") : t \in {"AudioClip", "TextAsset"}}
    \cup {Obj("Mesh", FALSE, "a_b")}

UnityFile(big, loads, objs) ==
    [zip |-> FALSE, data |-> "u", entries |-> <<>>,
     big |-> big, loads |-> loads, objs |-> objs]

ResourceNames ==
    {P(<<>>, "t", ".png"), P(<<"a">>, "icon", ".png"), P(<<"b">>, "icon", ".png"),
     P(<<>>, "s", ".mp3"), P(<<>>, "m", ".obj")}
ContainerNames ==
    {P(<<"Data">>, "level0", ""), P(<<"Data">>, "a", ".bundle"),
     P(<<>>, "b", ".unity3d")}
NestedName == P(<<>>, "n", ".apk")

RECURSIVE ObjLists(_)
\* the object lists of exactly n objects
ObjLists(n) ==
    IF n = 0 THEN {<<>>}
    ELSE {<<o>> \o r : o \in Objects, r \in ObjLists(n - 1)}

RECURSIVE CoreForest(_, _), CoreEntryOfSize(_, _)
\* member lists that account for exactly n items; d = 1 allows a nested APK
CoreForest(n, d) ==
    IF n = 0 THEN {<<>>}
    ELSE UNION {{<<e>> \o r : e \in CoreEntryOfSize(k, d), r \in CoreForest(n - k, d)}
                : k \in 1..n}
\* one member that accounts for exactly k items (itself and what it holds)
CoreEntryOfSize(k, d) ==
    (IF k = 1
     THEN {Entry(p, PlainFile("d1")) : p \in ResourceNames}
          \cup {Entry(p, UnityFile(TRUE, FALSE, <<>>)) : p \in ContainerNames}
          \cup {Entry(P(<<"Data">>, "level0", ""), UnityFile(FALSE, TRUE, <<>>))}
          \cup (IF d >= 1 THEN {Entry(NestedName, PlainFile("d1"))} ELSE {})
     ELSE {})
    \cup {Entry(p, UnityFile(TRUE, TRUE, os)) : p \in ContainerNames, os \in ObjLists(k - 1)}
    \cup (IF d >= 1
          THEN {Entry(NestedName, ZipFile(es)) : es \in CoreForest(k - 1, 0)}
          ELSE {})

CoreInputs ==
    {ZipFile(es) : es \in UNION {CoreForest(n, 1) : n \in 0..MaxItems}}
    \cup {PlainFile("d1")}

----------------------------------------------------------------------------
(* Directory trees *)

EmptyTree == [q \in {} |-> PlainFile("d1")]

\* what wrote an output file: the file of temp_dir it comes from and, for an
\* exported Unity object, the place of the object in its container (else 0)
Origin(p, k) == [src |-> p, obj |-> k]

EmptyOut == [q \in {} |-> Origin(P(<<>>, "", ""), 0)]

NoReports == [r \in {} |-> [models |-> 0, textures |-> 0, assetbundles |-> 0, data_files |-> 0]]

Put(tree, p, f) == [q \in (DOMAIN tree) \cup {p} |-> IF q = p THEN f ELSE tree[q]]

\* str.lower() on the extensions of the universe
Lower(e) == IF e = ".APK" THEN ".apk" ELSE e

\* main.py:262  file.lower().endswith('.apk')
IsApkName(p) == Lower(p.ext) = ".apk"

\* ZipFile.extract(name, dir): getinfo(name) is the last member of that name
RECURSIVE GetInfo(_, _)
GetInfo(es, p) ==
    IF es[Len(es)].path = p THEN es[Len(es)].file
    ELSE GetInfo(SubSeq(es, 1, Len(es) - 1), p)

\* main.py:290-294  extract every member of the nested archive into a folder
RECURSIVE ExtractAll(_, _, _)
ExtractAll(es, k, tree) ==
    IF k > Len(es) THEN tree
    ELSE ExtractAll(es, k + 1, Put(tree, es[k].path, GetInfo(es, es[k].path)))

\* a merge that copies every file, replacing the ones that are there
MergeOverwriting(src, dst) ==
    [q \in (DOMAIN dst) \cup (DOMAIN src) |->
        IF q \in DOMAIN src THEN src[q] ELSE dst[q]]

\* a merge that looks at the files right under src_dir only
MergeFlat(src, dst) ==
    [q \in (DOMAIN dst) \cup {r \in DOMAIN src : r.dir = <<>>} |->
        IF q \in DOMAIN dst THEN dst[q] ELSE src[q]]

\* main.py:314-329  _merge_directories: copy a file only if it is not there
MergeDirectories(src, dst) ==
    [q \in (DOMAIN dst) \cup (DOMAIN src) |->
        IF q \in DOMAIN dst THEN dst[q] ELSE src[q]]

\* no call of _merge_directories is looked at on its own
NoMerge ==
    /\ src_dir = EmptyTree
    /\ dst_dir = EmptyTree
    /\ merge_args = <<>>

----------------------------------------------------------------------------
(* Walking the working directory *)

IsPrefix(d, e) == Len(d) <= Len(e) /\ SubSeq(e, 1, Len(d)) = d

\* the order in which a directory walk yields a set of paths
RECURSIVE SeqOf(_)
SeqOf(S) ==
    IF S = {} THEN <<>>
    ELSE LET x == CHOOSE x \in S : TRUE IN <<x>> \o SeqOf(S \ {x})

\* Path(d).rglob("*" + ext) over the files of the tree
Rglob(tree, d, ext) ==
    SeqOf({p \in DOMAIN tree : IsPrefix(d, p.dir) /\ (ext = "" \/ p.ext = ext)})

\* for ext in exts: found.extend(Path(d).rglob("*" + ext))
RECURSIVE GlobAll(_, _, _, _)
GlobAll(tree, d, exts, k) ==
    IF k > Len(exts) THEN <<>>
    ELSE Rglob(tree, d, exts[k]) \o GlobAll(tree, d, exts, k + 1)

InSeq(x, q) == \E k \in 1..Len(q) : q[k] = x

\* main.py:152-157  sanitize_filename on the object names of the universe
sanitize_filename(name) == IF name = "a/b" THEN "a_b" ELSE name

----------------------------------------------------------------------------
(* Callbacks, main.py:236-242 and 250-251 *)

Msg(level, stage) == [level |-> level, stage |-> stage]

\* main.py:237-242  _log: the callback is called only when there is one
LogTo(l, c, m) == IF c THEN Append(l, m) ELSE l

\* a progress report that calls the callback without looking at it
NotifyUnguarded(c) == IF c THEN "called" ELSE "raised"

\* main.py:250-251  if progress_callback: progress_callback(0, len(files), ...)
Notify(c) == IF c THEN "called" ELSE "skipped"

----------------------------------------------------------------------------
(* What the windows work with.  A folder path is [parent, name]; parent is *)
(* "." for a relative path, and a name is [extracted, stem]: extracted     *)
(* tells whether it starts with extracted_.                                *)

MaxStarts == 2

None == P(<<>>, "", "")
Folder(parent, extracted, stem) ==
    [parent |-> parent, name |-> [extracted |-> extracted, stem |-> stem]]
Empty == Folder("", FALSE, "")

\* the files the file dialog offers: an APK and a file that is no ZIP
ApkPaths == {P(<<"dl">>, "game", ".apk"), P(<<"dl">>, "bad", ".apk")}
\* the folders the folder dialog offers (it returns absolute paths)
BrowseDirs == {Folder("/home", FALSE, "out")}

FileAt(p) == IF p.stem = "game" THEN ZipFile(<<>>) ELSE PlainFile("d1")

\* f"extracted_{os.path.splitext(os.path.basename(file_path))[0]}"
DefaultDir(p) == Folder(".", TRUE, p.stem)

\* where a folder path leads when the process runs in /cwd
Loc(d) == [cwd |-> d.parent \in {".", "/cwd"}, name |-> d.name]
Locs == {Loc(d) : d \in BrowseDirs \cup {DefaultDir(p) : p \in ApkPaths}}

NoSlot == [name |-> "", arg |-> Empty, thread |-> 0]

\* no window is open
NoWindow ==
    /\ apk_path = None
    /\ output_dir = Empty
    /\ output_path_edit = Empty
    /\ enabled = <<>>
    /\ threads = <<>>
    /\ queue = <<>>
    /\ fs = [l \in Locs |-> FALSE]
    /\ results_list = <<>>
    /\ slot = NoSlot

----------------------------------------------------------------------------
(* _extract_apk_contents, main.py:244-312 *)

NoStats == [models |-> 0, textures |-> 0, assetbundles |-> 0, data_files |-> 0]

\* main.py:166-187  the state after APKExtractorCore(apk_path, output_dir)
InitWith(inputs) ==
    /\ apk \in inputs
    /\ temp = EmptyTree
    /\ staged = {}
    /\ nested_apks = <<>>
    /\ i = 1
    /\ j = 1
    /\ opened = 0
    /\ pc = "open"
    /\ log = <<>>
    /\ out = EmptyOut
    /\ stats = NoStats
    /\ processed = <<>>
    /\ reports = NoReports
    /\ write_failed = "none"
    /\ ret = "none"
    /\ first = <<>>

InitUnpack ==
    /\ InitWith(ApkInputs)
    /\ cb \in BOOLEAN
    /\ unitypy = TRUE
    /\ pillow = TRUE
    /\ NoWindow
    /\ NoMerge

\* main.py:247-254  open the APK; a file that is no ZIP raises (310-312)
OpenApk ==
    /\ pc = "open"
    /\ IF apk.zip /\ Notify(cb) # "raised"
       THEN /\ pc' = "files"
            /\ opened' = opened + 1
            /\ UNCHANGED log
       ELSE /\ pc' = "raised"
            /\ log' = LogTo(log, cb, Msg("error", "unpack"))
            /\ UNCHANGED opened
    /\ UNCHANGED <<apk, temp, staged, nested_apks, i, j, envVars, coreVars>>

\* main.py:256-269  one iteration of the loop over namelist()
ExtractFile ==
    /\ pc = "files"
    /\ i <= Len(apk.entries)
    /\ LET file == apk.entries[i].path
       IN /\ temp' = Put(temp, file, GetInfo(apk.entries, file))
          /\ nested_apks' = IF IsApkName(file)
                            THEN Append(nested_apks, file)
                            ELSE nested_apks
    /\ i' = i + 1
    /\ UNCHANGED <<apk, staged, j, opened, pc, envVars, log, coreVars>>

\* main.py:271-275  the loop is over; go on to the nested APKs if there are any
FilesDone ==
    /\ pc = "files"
    /\ i > Len(apk.entries)
    /\ pc' = IF nested_apks # <<>> THEN "nested" ELSE "unpacked"
    /\ UNCHANGED <<unpackVars, envVars, log, coreVars>>

\* a loop that takes the same nested APK again
SameNested(k) == k

\* main.py:277  for i, nested_apk in enumerate(nested_apks): the next element
NextNested(k) == k + 1

\* a handler that gives up on the nested APKs left in the list
StopNested(k, n) == n + 1

\* main.py:304-306  except Exception: log a warning, continue with the next
ContinueNested(k, n) == NextNested(k)

\* main.py:277-306  one iteration of the loop over nested_apks
UnpackNested ==
    /\ pc = "nested"
    /\ j <= Len(nested_apks)
    /\ LET nested_apk == nested_apks[j]
           nested_file == temp[nested_apk]
       IN IF nested_file.zip
          THEN \* unpack into _nested_<stem>, merge, remove the folder
               /\ temp' = MergeDirectories(
                              ExtractAll(nested_file.entries, 1, EmptyTree), temp)
               /\ opened' = opened + 1
               /\ staged' = staged \ {nested_apk.stem}
               /\ j' = NextNested(j)
               /\ UNCHANGED log
          ELSE \* ZipFile raises after mkdir: the folder stays, warning, continue
               /\ staged' = staged \cup {nested_apk.stem}
               /\ log' = LogTo(log, cb, Msg("warning", "nested"))
               /\ j' = ContinueNested(j, Len(nested_apks))
               /\ UNCHANGED <<temp, opened>>
    /\ UNCHANGED <<apk, nested_apks, i, pc, envVars, coreVars>>

\* main.py:308  every nested APK was handled; the method returns
NestedDone ==
    /\ pc = "nested"
    /\ j > Len(nested_apks)
    /\ pc' = "unpacked"
    /\ UNCHANGED <<unpackVars, envVars, log, coreVars>>

NextUnpack ==
    \/ OpenApk
    \/ ExtractFile
    \/ FilesDone
    \/ UnpackNested
    \/ NestedDone

SpecUnpack == InitUnpack /\ [][NextUnpack]_vars

\* the method is one sequential call: it keeps running until it returns or raises
SpecUnpackFair == SpecUnpack /\ WF_vars(NextUnpack)

----------------------------------------------------------------------------
(* Exporting the objects of a container, main.py:463-503 and 583-617 *)

\* an export that handles the meshes alone
RECURSIVE ExportMeshesOnly(_, _, _, _, _)
ExportMeshesOnly(objs, k, odir, src, res) ==
    IF k > Len(objs) THEN res
    ELSE IF objs[k].ok /\ objs[k].type = "Mesh"
         THEN ExportMeshesOnly(objs, k + 1, odir, src,
                  [res EXCEPT
                     !.out = Put(@, P(odir \o <<"meshes">>,
                                      sanitize_filename(objs[k].name), ".obj"),
                                 Origin(src, k)),
                     !.meshes = @ + 1])
         ELSE ExportMeshesOnly(objs, k + 1, odir, src, res)

\* res = [out, meshes, textures]; odir is the folder made for the container
RECURSIVE ExportObjects(_, _, _, _, _)
ExportObjects(objs, k, odir, src, res) ==
    IF k > Len(objs) THEN res
    ELSE LET o == objs[k]
             name == sanitize_filename(o.name)
         IN IF o.ok /\ o.type = "Mesh"
            THEN ExportObjects(objs, k + 1, odir, src,
                     [res EXCEPT
                        !.out = Put(@, P(odir \o <<"meshes">>, name, ".obj"),
                                    Origin(src, k)),
                        !.meshes = @ + 1])
            ELSE IF o.ok /\ o.type = "Texture2D" /\ pillow
            THEN ExportObjects(objs, k + 1, odir, src,
                     [res EXCEPT
                        !.out = Put(@, P(odir \o <<"textures">>, name, ".png"),
                                    Origin(src, k)),
                        !.textures = @ + 1])
            ELSE ExportObjects(objs, k + 1, odir, src, res)

\* a loop that ends at the first item whose processing raises
AbortAfter(k, n) == n + 1

\* main.py:414-421 and 564-565  except ...: continue with the next item
ContinueAfter(k, n) == k + 1

----------------------------------------------------------------------------
(* _process_unity_data_files, main.py:331-433 *)

PossiblePaths ==
    {<<"assets", "bin", "Data">>, <<"assets", "data">>, <<"data">>,
     <<"Assets", "Data">>, <<"Assets", "data">>}

\* the directories of a tree: the folders its files lie in
Dirs(tree) ==
    UNION {{SubSeq(p.dir, 1, k) : k \in 1..Len(p.dir)} : p \in DOMAIN tree}

\* main.py:335-360  data_dirs, without duplicates
DataDirs(tree) == {d \in Dirs(tree) : d[Len(d)] = "Data" \/ d \in PossiblePaths}

DataExts == <<"", ".assets", ".resource", ".unity3d", ".bundle", ".dat", ".bin">>

\* main.py:366-373  all_files
AllFiles(tree, d) ==
    LET byExt == GlobAll(tree, d, DataExts, 1)
    IN byExt \o SelectSeq(Rglob(tree, d, ""), LAMBDA p : ~InSeq(p, byExt))

\* main.py:376  files: those larger than 1 KB
DataFileList(tree, d) == SelectSeq(AllFiles(tree, d), LAMBDA p : tree[p].big)

\* main.py:435-526  _process_single_data_file on a file UnityPy loads
ProcessSingleDataFile(p, f, o) ==
    IF f.objs = <<>> THEN [out |-> o, meshes |-> 0, textures |-> 0]
    ELSE LET odir == <<"unity_data", p.stem>>
             r == ExportObjects(f.objs, 1, odir, p,
                                [out |-> o, meshes |-> 0, textures |-> 0])
         IN IF r.meshes > 0 \/ r.textures > 0
            THEN [r EXCEPT !.out = Put(@, P(odir, "info", ".json"), Origin(p, 0))]
            ELSE r

\* main.py:391-421  the loop over the files of one Data folder
\* acc = [out, stats, processed, log, meshes, textures]
RECURSIVE DataFileLoop(_, _, _, _)
DataFileLoop(tree, files, k, acc) ==
    IF k > Len(files) THEN acc
    ELSE LET p == files[k]
             f == tree[p]
             took == [acc EXCEPT
                        !.processed = Append(@, [stage |-> "data", path |-> p])]
         IN IF ~unitypy
            THEN DataFileLoop(tree, files, k + 1,
                     [took EXCEPT
                        !.out = Put(@, P(<<"unity_data">> \o p.dir, p.stem, p.ext),
                                    Origin(p, 0))])
            ELSE IF ~f.loads
            THEN DataFileLoop(tree, files, ContinueAfter(k, Len(files)),
                     [took EXCEPT !.log = LogTo(@, cb, Msg("warning", "data"))])
            ELSE LET r == ProcessSingleDataFile(p, f, acc.out)
                 IN DataFileLoop(tree, files, k + 1,
                        [took EXCEPT
                           !.out = r.out,
                           !.meshes = @ + r.meshes,
                           !.textures = @ + r.textures,
                           !.stats.data_files = @ + 1])

\* main.py:362-427  the loop over data_dirs
RECURSIVE DataDirLoop(_, _, _, _)
DataDirLoop(tree, dirs, k, acc) ==
    IF k > Len(dirs) THEN acc
    ELSE LET files == DataFileList(tree, dirs[k])
         IN IF files = <<>>
            THEN DataDirLoop(tree, dirs, k + 1, acc)
            ELSE LET r == DataFileLoop(tree, files, 1,
                              [acc EXCEPT !.meshes = 0, !.textures = 0])
                 IN DataDirLoop(tree, dirs, k + 1,
                        [r EXCEPT
                           !.stats.models = @ + r.meshes,
                           !.stats.textures = @ + r.textures])

ProcessUnityDataFiles ==
    /\ pc = "unpacked"
    /\ LET r == DataDirLoop(temp, SeqOf(DataDirs(temp)), 1,
                    [out |-> out, stats |-> stats, processed |-> processed,
                     log |-> log, meshes |-> 0, textures |-> 0])
       IN /\ out' = r.out
          /\ stats' = r.stats
          /\ processed' = r.processed
          /\ log' = r.log
    /\ pc' = "assets"
    /\ UNCHANGED <<unpackVars, envVars, reports, write_failed, ret>>

----------------------------------------------------------------------------
(* _extract_unity_assets, main.py:528-568 *)

BundleExts == <<".assetbundle", ".bundle", ".unity3d">>

\* main.py:570-626  _process_asset_bundle on a file UnityPy loads
\* acc = [out, stats, processed, log]
ProcessAssetBundle(p, f, acc) ==
    LET r == ExportObjects(f.objs, 1, <<"unity_assets">> \o p.dir \o <<p.stem>>, p,
                           [out |-> acc.out, meshes |-> 0, textures |-> 0])
    IN [acc EXCEPT
          !.out = r.out,
          !.stats.models = @ + r.meshes,
          !.stats.textures = @ + r.textures]

\* main.py:550-565  the loop over bundles
RECURSIVE BundleLoop(_, _, _, _)
BundleLoop(tree, bundles, k, acc) ==
    IF k > Len(bundles) THEN acc
    ELSE LET p == bundles[k]
             f == tree[p]
             took == [acc EXCEPT
                        !.processed = Append(@, [stage |-> "assets", path |-> p])]
         IN IF ~unitypy
            THEN BundleLoop(tree, bundles, k + 1,
                     [took EXCEPT
                        !.out = Put(@, P(<<"unity_assets">> \o p.dir, p.stem, p.ext),
                                    Origin(p, 0))])
            ELSE IF ~f.loads
            THEN BundleLoop(tree, bundles, ContinueAfter(k, Len(bundles)),
                     [took EXCEPT !.log = LogTo(@, cb, Msg("warning", "assets"))])
            ELSE BundleLoop(tree, bundles, k + 1, ProcessAssetBundle(p, f, took))

ExtractUnityAssets ==
    /\ pc = "assets"
    /\ LET bundles == GlobAll(temp, <<>>, BundleExts, 1)
           r == BundleLoop(temp, bundles, 1,
                    [out |-> out,
                     stats |-> [stats EXCEPT !.assetbundles = Len(bundles)],
                     processed |-> processed, log |-> log])
       IN /\ out' = r.out
          /\ stats' = r.stats
          /\ processed' = r.processed
          /\ log' = r.log
    /\ pc' = "resources"
    /\ UNCHANGED <<unpackVars, envVars, reports, write_failed, ret>>

----------------------------------------------------------------------------
(* _extract_resources, main.py:628-669 *)

TextureExts == <<".png", ".jpg", ".jpeg", ".tga">>
IconPatterns == <<"icon", "launcher", "logo">>
AudioExts == <<".mp3", ".wav", ".ogg">>

\* fnmatch of "*<word>*" on the stems of the universe
Contains(stem, word) == stem = word

\* main.py:645-646  for pattern in icon_patterns: rglob(pattern + ".png")
RECURSIVE IconGlob(_, _)
IconGlob(tree, k) ==
    IF k > Len(IconPatterns) THEN <<>>
    ELSE SeqOf({p \in DOMAIN tree : p.ext = ".png" /\ Contains(p.stem, IconPatterns[k])})
         \o IconGlob(tree, k + 1)

\* main.py:636-637, 648-649, 659-660  where a resource is copied to
Dest(category, p) ==
    IF category = "icons"
    THEN P(<<"icons">>, p.stem, p.ext)
    ELSE P(<<category>> \o p.dir, p.stem, p.ext)

\* shutil.copy2 of each path in turn
RECURSIVE CopyAll(_, _, _, _)
CopyAll(paths, k, category, o) ==
    IF k > Len(paths) THEN o
    ELSE CopyAll(paths, k + 1, category,
                 Put(o, Dest(category, paths[k]), Origin(paths[k], 0)))

ExtractResources ==
    /\ pc = "resources"
    /\ LET tex == CopyAll(GlobAll(temp, <<>>, TextureExts, 1), 1, "textures", out)
           ico == CopyAll(IconGlob(temp, 1), 1, "icons", tex)
       IN out' = CopyAll(GlobAll(temp, <<>>, AudioExts, 1), 1, "audio", ico)
    /\ pc' = "reports"
    /\ UNCHANGED <<unpackVars, envVars, log, stats, processed, reports,
                   write_failed, ret>>

----------------------------------------------------------------------------
(* _create_reports and the end of extract_apk, main.py:225-234 and 671-755 *)

\* the write that raises, if one does
WriteFailures == {"none", "json", "html"}

\* reports that leave the HTML report out
WriteJsonOnly(fail, st) ==
    IF fail = "json" THEN NoReports ELSE [r \in {"json"} |-> st]

\* main.py:688-695 and 750-752  the report files written when `fail` raises
WriteReports(fail, st) ==
    IF fail = "json" THEN NoReports
    ELSE IF fail = "html" THEN [r \in {"json"} |-> st]
    ELSE [r \in {"json", "html"} |-> st]

\* a return value that tells a failed report write
ReturnFailure(fail) == IF fail = "none" THEN "True" ELSE "False"

\* main.py:226-230  _create_reports swallowed what it raised: return True
ReturnAfterReports(fail) == "True"

\* main.py:225-230  the report stage, then return True
CreateReports ==
    /\ pc = "reports"
    /\ \E fail \in WriteFailures :
          /\ write_failed' = fail
          /\ reports' = WriteReports(fail, stats)
          /\ log' = IF fail = "none" THEN log
                    ELSE LogTo(log, cb, Msg("error", "reports"))
          /\ ret' = ReturnAfterReports(fail)
    /\ pc' = "done"
    /\ UNCHANGED <<unpackVars, envVars, out, stats, processed>>

\* an unpack stage whose exception is swallowed like those of the other stages
UnpackIgnored ==
    /\ pc = "raised"
    /\ log' = LogTo(log, cb, Msg("error", "extract"))
    /\ pc' = "unpacked"
    /\ UNCHANGED <<unpackVars, envVars, coreVars>>

\* main.py:232-234  the unpack stage raised: log the error, return False
UnpackFailed ==
    /\ pc = "raised"
    /\ log' = LogTo(log, cb, Msg("error", "extract"))
    /\ ret' = "False"
    /\ pc' = "done"
    /\ UNCHANGED <<unpackVars, envVars, out, stats, processed, reports, write_failed>>

----------------------------------------------------------------------------
(* extract_apk, main.py:206-234 *)

Envs == {<<TRUE, TRUE>>, <<TRUE, FALSE>>, <<FALSE, FALSE>>}

Init ==
    /\ InitWith(CoreInputs)
    /\ cb \in BOOLEAN
    /\ \E e \in Envs : unitypy = e[1] /\ pillow = e[2]
    /\ NoWindow
    /\ NoMerge

Next ==
    \/ OpenApk
    \/ ExtractFile
    \/ FilesDone
    \/ UnpackNested
    \/ NestedDone
    \/ UnpackFailed
    \/ ProcessUnityDataFiles
    \/ ExtractUnityAssets
    \/ ExtractResources
    \/ CreateReports

Spec == Init /\ [][Next]_vars

----------------------------------------------------------------------------
(* The same extraction run again without callbacks *)

Outcome ==
    [out |-> out, stats |-> stats, ret |-> ret, reports |-> reports,
     write_failed |-> write_failed, log |-> log]

\* a second APKExtractorCore on the same APK and a fresh output directory,
\* and extract_apk(None, None) on it: what the command line would run
RunWithoutCallbacks ==
    /\ pc = "done"
    /\ cb
    /\ first = <<>>
    /\ first' = <<Outcome>>
    /\ cb' = FALSE
    /\ temp' = EmptyTree
    /\ staged' = {}
    /\ nested_apks' = <<>>
    /\ i' = 1
    /\ j' = 1
    /\ opened' = 0
    /\ pc' = "open"
    /\ log' = <<>>
    /\ out' = EmptyOut
    /\ stats' = NoStats
    /\ processed' = <<>>
    /\ reports' = NoReports
    /\ write_failed' = "none"
    /\ ret' = "none"
    /\ UNCHANGED <<apk, unitypy, pillow, guiVars, mergeVars>>

InitTwin ==
    /\ InitWith(CoreInputs)
    /\ cb = TRUE
    /\ \E e \in Envs : unitypy = e[1] /\ pillow = e[2]
    /\ NoWindow
    /\ NoMerge

NextTwin == Next \/ RunWithoutCallbacks

SpecTwin == InitTwin /\ [][NextTwin]_vars

----------------------------------------------------------------------------
(* _merge_directories on its own, main.py:314-329 *)

MergePaths == {P(<<>>, "f", ""), P(<<>>, "g", ""), P(<<"d">>, "f", "")}
MergeFiles == {PlainFile("d1"), PlainFile("d2")}

\* the folders the call may be given: any files at the paths of MergePaths
MergeTrees == UNION {[S -> MergeFiles] : S \in SUBSET MergePaths}

InitMerge ==
    /\ InitWith({PlainFile("d1")})
    /\ cb = FALSE
    /\ unitypy = TRUE
    /\ pillow = TRUE
    /\ NoWindow
    /\ src_dir \in MergeTrees
    /\ dst_dir \in MergeTrees
    /\ merge_args = <<>>

\* main.py:314-329  the call: shutil.copy2 copies into dst_dir and leaves
\* src_dir as it is
MergeCall ==
    /\ merge_args = <<>>
    /\ merge_args' = <<[src |-> src_dir, dst |-> dst_dir]>>
    /\ dst_dir' = MergeDirectories(src_dir, dst_dir)
    /\ UNCHANGED <<src_dir, unpackVars, pc, cb, unitypy, pillow, first, log, coreVars, guiVars>>

SpecMerge == InitMerge /\ [][MergeCall]_vars

----------------------------------------------------------------------------
(* The window of main.py: APKExtractorGUI and its ExtractionThread *)

runVars == <<unpackVars, pc, cb, unitypy, pillow, first, log, coreVars, mergeVars>>

\* QThread.isRunning(): run() was entered and has not returned
Running(t) == t.state \in {"started", "extracting", "emitted"}

\* main.py:1294-1319  the folders of the working directory whose name starts
\* with extracted_
Listing(disk) ==
    SeqOf({l.name : l \in {m \in DOMAIN disk :
                             m.cwd /\ m.name.extracted /\ disk[m]}})

\* a lock that leaves the cancel button as it was
SetUiEnabledKeepCancel(en, flag, ap) ==
    [en EXCEPT !.select_apk_btn = flag,
               !.clear_apk_btn = flag /\ ap # None,
               !.browse_output_btn = flag,
               !.extract_btn = flag /\ ap # None,
               !.output_path_edit = flag]

\* main.py:1374-1381
SetUiEnabled(en, flag, ap) ==
    [en EXCEPT !.select_apk_btn = flag,
               !.clear_apk_btn = flag /\ ap # None,
               !.browse_output_btn = flag,
               !.extract_btn = flag /\ ap # None,
               !.cancel_btn = ~flag,
               !.output_path_edit = flag]

\* main.py:814-836, 924-994, 1049-1083  the window as constructed, in a
\* working directory that holds no results yet
InitGui ==
    /\ InitWith({PlainFile("d1")})
    /\ cb = TRUE
    /\ unitypy = TRUE
    /\ pillow = TRUE
    /\ apk_path = None
    /\ output_dir = Empty
    /\ output_path_edit = Empty
    /\ enabled = [select_apk_btn |-> TRUE, clear_apk_btn |-> FALSE,
                  browse_output_btn |-> TRUE, extract_btn |-> FALSE,
                  cancel_btn |-> FALSE, open_results_btn |-> FALSE,
                  output_path_edit |-> TRUE]
    /\ threads = <<>>
    /\ queue = <<>>
    /\ fs = [l \in Locs |-> FALSE]
    /\ results_list = Listing(fs)
    /\ slot = NoSlot
    /\ NoMerge

\* main.py:1127-1144
SelectApk ==
    /\ enabled.select_apk_btn
    /\ \E file_path \in ApkPaths \cup {None} :
          IF file_path # None
          THEN /\ apk_path' = file_path
               /\ output_path_edit' = DefaultDir(file_path)
               /\ enabled' = [enabled EXCEPT !.clear_apk_btn = TRUE,
                                             !.extract_btn = TRUE]
          ELSE UNCHANGED <<apk_path, output_path_edit, enabled>>
    /\ slot' = NoSlot
    /\ UNCHANGED <<runVars, output_dir, threads, queue, fs, results_list>>

\* main.py:1146-1153
ClearApk ==
    /\ enabled.clear_apk_btn
    /\ apk_path' = None
    /\ enabled' = [enabled EXCEPT !.clear_apk_btn = FALSE, !.extract_btn = FALSE]
    /\ output_path_edit' = Empty
    /\ slot' = NoSlot
    /\ UNCHANGED <<runVars, output_dir, threads, queue, fs, results_list>>

\* main.py:1155-1164
SelectOutputDir ==
    /\ enabled.browse_output_btn
    /\ \E dir_path \in BrowseDirs \cup {Empty} :
          output_path_edit' = IF dir_path # Empty THEN dir_path ELSE output_path_edit
    /\ slot' = NoSlot
    /\ UNCHANGED <<runVars, apk_path, output_dir, enabled, threads, queue, fs,
                   results_list>>

\* main.py:949-950  the user empties the line edit
EditOutputPath ==
    /\ enabled.output_path_edit
    /\ output_path_edit # Empty
    /\ output_path_edit' = Empty
    /\ slot' = NoSlot
    /\ UNCHANGED <<runVars, apk_path, output_dir, enabled, threads, queue, fs,
                   results_list>>

\* main.py:1166-1203
StartExtraction ==
    /\ enabled.extract_btn
    /\ Len(threads) < MaxStarts
    /\ slot' = NoSlot
    /\ IF apk_path = None
       THEN UNCHANGED <<output_path_edit, enabled, threads>>
       ELSE LET od == IF output_path_edit = Empty THEN DefaultDir(apk_path)
                      ELSE output_path_edit
            IN /\ output_path_edit' = od
               /\ \E reply \in IF fs[Loc(od)] THEN {"Yes", "No"} ELSE {"none"} :
                     IF reply = "No"
                     THEN UNCHANGED <<enabled, threads>>
                     ELSE /\ enabled' = SetUiEnabled(enabled, FALSE, apk_path)
                          /\ threads' = Append(threads,
                                 [apk_path |-> apk_path, output_dir |-> od,
                                  state |-> "started", success |-> "none",
                                  emitted |-> <<>>])
    /\ UNCHANGED <<runVars, apk_path, output_dir, queue, fs, results_list>>

\* main.py:206-234  what extract_apk returns for the file at apk_path
ExtractApkResult(file) == IF file.zip THEN "True" ELSE "False"

\* a run that reports every end as a success
FinishedAlways(success) == "extraction_finished"

\* main.py:788-799  the terminal signal of a run: extraction_finished when
\* extract_apk returned True, extraction_error when it returned False or
\* something raised
TerminalSignal(success) ==
    IF success = "True" THEN "extraction_finished" ELSE "extraction_error"

\* thread k emits its terminal signal
Emit(k, success) ==
    /\ threads' = [threads EXCEPT ![k].state = "emitted",
                                  ![k].success = success,
                                  ![k].emitted = Append(@, TerminalSignal(success))]
    /\ queue' = Append(queue, [sig |-> TerminalSignal(success),
                               output_dir |-> threads[k].output_dir,
                               thread |-> k])

\* main.py:775-779, 166-204, 798-799  ExtractionThread.run builds the
\* extractor, which makes the output folders; if that raises (a folder that
\* cannot be made) the run ends with extraction_error
WorkerCreate ==
    \E k \in 1..Len(threads) : \E raised \in BOOLEAN :
        /\ threads[k].state = "started"
        /\ IF raised
           THEN /\ Emit(k, "raised")
                /\ UNCHANGED fs
           ELSE /\ threads' = [threads EXCEPT ![k].state = "extracting"]
                /\ fs' = [fs EXCEPT ![Loc(threads[k].output_dir)] = TRUE]
                /\ UNCHANGED queue
        /\ UNCHANGED <<runVars, apk_path, output_dir, output_path_edit, enabled,
                       results_list, slot>>

\* main.py:781-796, 206-234  extract_apk on the worker, then the signal that
\* tells the window how it ended
WorkerExtract ==
    \E k \in 1..Len(threads) :
        LET t == threads[k]
            l == Loc(t.output_dir)
            success == ExtractApkResult(FileAt(t.apk_path))
        IN /\ t.state = "extracting"
           /\ Emit(k, success)
           /\ fs' = IF success = "True" THEN [fs EXCEPT ![l] = TRUE] ELSE fs
           /\ UNCHANGED <<runVars, apk_path, output_dir, output_path_edit,
                          enabled, results_list, slot>>

\* main.py:775-799  run returns after the emit: the thread is over
WorkerReturn ==
    \E k \in 1..Len(threads) :
        /\ threads[k].state = "emitted"
        /\ threads' = [threads EXCEPT ![k].state = "finished"]
        /\ UNCHANGED <<runVars, apk_path, output_dir, output_path_edit, enabled,
                       queue, fs, results_list, slot>>

\* main.py:1233-1264
ExtractionCompleted ==
    /\ queue # <<>>
    /\ Head(queue).sig = "extraction_finished"
    /\ queue' = Tail(queue)
    /\ enabled' = [SetUiEnabled(enabled, TRUE, apk_path)
                      EXCEPT !.open_results_btn = TRUE]
    /\ results_list' = Listing(fs)
    /\ slot' = [name |-> "_extraction_completed", arg |-> Head(queue).output_dir,
                thread |-> Head(queue).thread]
    /\ UNCHANGED <<runVars, apk_path, output_dir, output_path_edit, threads, fs>>

\* main.py:1266-1273
ExtractionError ==
    /\ queue # <<>>
    /\ Head(queue).sig = "extraction_error"
    /\ queue' = Tail(queue)
    /\ enabled' = SetUiEnabled(enabled, TRUE, apk_path)
    /\ slot' = [name |-> "_extraction_error", arg |-> Head(queue).output_dir,
                thread |-> Head(queue).thread]
    /\ UNCHANGED <<runVars, apk_path, output_dir, output_path_edit, threads, fs,
                   results_list>>

\* main.py:1275-1284
CancelExtraction ==
    /\ enabled.cancel_btn
    /\ slot' = NoSlot
    /\ IF threads # <<>> /\ Running(threads[Len(threads)])
       THEN /\ threads' = [threads EXCEPT ![Len(threads)].state = "terminated"]
            /\ enabled' = SetUiEnabled(enabled, TRUE, apk_path)
       ELSE UNCHANGED <<threads, enabled>>
    /\ UNCHANGED <<runVars, apk_path, output_dir, output_path_edit, queue, fs,
                   results_list>>

\* main.py:1294-1319
RefreshResults ==
    /\ results_list' = Listing(fs)
    /\ slot' = NoSlot
    /\ UNCHANGED <<runVars, apk_path, output_dir, output_path_edit, enabled,
                   threads, queue, fs>>

\* main.py:1333-1352  selected = 0: no item is selected
DeleteSelectedResult ==
    /\ slot' = NoSlot
    /\ \E selected \in 0..Len(results_list) :
       \E reply \in IF selected = 0 THEN {"none"} ELSE {"Yes", "No"} :
          LET l == [cwd |-> TRUE, name |-> results_list[selected]]
          IN IF selected # 0 /\ reply = "Yes" /\ fs[l]
             THEN /\ fs' = [fs EXCEPT ![l] = FALSE]
                  /\ results_list' = Listing(fs')
             ELSE UNCHANGED <<fs, results_list>>
    /\ UNCHANGED <<runVars, apk_path, output_dir, output_path_edit, enabled,
                   threads, queue>>

NextGui ==
    \/ SelectApk
    \/ ClearApk
    \/ SelectOutputDir
    \/ EditOutputPath
    \/ StartExtraction
    \/ WorkerCreate
    \/ WorkerExtract
    \/ WorkerReturn
    \/ ExtractionCompleted
    \/ ExtractionError
    \/ CancelExtraction
    \/ RefreshResults
    \/ DeleteSelectedResult

SpecGui == InitGui /\ [][NextGui]_vars

----------------------------------------------------------------------------
(* The window of gui.py: APKExtractorGUI and its ExtractionThread *)

\* gui.py:39-114  the window as constructed
InitGui2 ==
    /\ InitWith({PlainFile("d1")})
    /\ cb = FALSE
    /\ unitypy = TRUE
    /\ pillow = TRUE
    /\ apk_path = None
    /\ output_dir = Empty
    /\ output_path_edit = Empty
    /\ enabled = [extract_btn |-> FALSE, open_btn |-> FALSE]
    /\ threads = <<>>
    /\ queue = <<>>
    /\ fs = [l \in Locs |-> FALSE]
    /\ results_list = <<>>
    /\ slot = NoSlot
    /\ NoMerge

\* gui.py:116-133  file_btn is a local of initUI: nothing ever disables it
select_file ==
    /\ \E file_path \in ApkPaths \cup {None} :
          IF file_path # None
          THEN /\ apk_path' = file_path
               /\ output_dir' = DefaultDir(file_path)
               /\ enabled' = [enabled EXCEPT !.extract_btn = TRUE]
          ELSE UNCHANGED <<apk_path, output_dir, enabled>>
    /\ slot' = NoSlot
    /\ UNCHANGED <<runVars, output_path_edit, threads, queue, fs, results_list>>

\* gui.py:135-147
select_output ==
    /\ slot' = NoSlot
    /\ IF apk_path = None
       THEN UNCHANGED output_dir
       ELSE \E dir_path \in BrowseDirs \cup {Empty} :
               output_dir' = IF dir_path # Empty THEN dir_path ELSE output_dir
    /\ UNCHANGED <<runVars, apk_path, output_path_edit, enabled, threads, queue,
                   fs, results_list>>

\* gui.py:149-165
start_extraction ==
    /\ enabled.extract_btn
    /\ Len(threads) < MaxStarts
    /\ slot' = NoSlot
    /\ IF apk_path = None
       THEN UNCHANGED <<enabled, threads>>
       ELSE /\ enabled' = [enabled EXCEPT !.extract_btn = FALSE, !.open_btn = FALSE]
            /\ threads' = Append(threads,
                   [apk_path |-> apk_path, output_dir |-> output_dir,
                    state |-> "started"])
    /\ UNCHANGED <<runVars, apk_path, output_dir, output_path_edit, queue, fs,
                   results_list>>

\* gui.py:26-32  ExtractionThread.run: the extractor returns or raises, the
\* matching signal is emitted and the run is over
run ==
    \E k \in 1..Len(threads) : \E raised \in BOOLEAN :
        /\ threads[k].state = "started"
        /\ threads' = [threads EXCEPT ![k].state = "finished"]
        /\ queue' = Append(queue,
               [sig |-> IF raised THEN "error" ELSE "finished",
                output_dir |-> threads[k].output_dir, thread |-> k])
        /\ UNCHANGED <<runVars, apk_path, output_dir, output_path_edit, enabled,
                       fs, results_list, slot>>

\* gui.py:171-182
extraction_finished ==
    /\ queue # <<>>
    /\ Head(queue).sig = "finished"
    /\ queue' = Tail(queue)
    /\ enabled' = [enabled EXCEPT !.open_btn = TRUE, !.extract_btn = TRUE]
    /\ slot' = [name |-> "extraction_finished", arg |-> Head(queue).output_dir,
                thread |-> Head(queue).thread]
    /\ UNCHANGED <<runVars, apk_path, output_dir, output_path_edit, threads, fs,
                   results_list>>

\* gui.py:184-190
extraction_error ==
    /\ queue # <<>>
    /\ Head(queue).sig = "error"
    /\ queue' = Tail(queue)
    /\ enabled' = [enabled EXCEPT !.extract_btn = TRUE]
    /\ slot' = [name |-> "extraction_error", arg |-> Head(queue).output_dir,
                thread |-> Head(queue).thread]
    /\ UNCHANGED <<runVars, apk_path, output_dir, output_path_edit, threads, fs,
                   results_list>>

NextGui2 ==
    \/ select_file
    \/ select_output
    \/ start_extraction
    \/ run
    \/ extraction_finished
    \/ extraction_error

SpecGui2 == InitGui2 /\ [][NextGui2]_vars

----------------------------------------------------------------------------
(* Claims about _extract_apk_contents *)

\* the paths of a member list
PathsOf(es) == {es[k].path : k \in 1..Len(es)}

\* the archives found under .apk names in a member list, at any depth
RECURSIVE ApksInside(_)
ApksInside(es) ==
    UNION {IF IsApkName(p) /\ GetInfo(es, p).zip
           THEN {GetInfo(es, p)} \cup ApksInside(GetInfo(es, p).entries)
           ELSE {} : p \in PathsOf(es)}

\* the nested APKs the top-level APK holds directly, in the order of the list
NestedFile(k) == GetInfo(apk.entries, nested_apks[k])

Unpacked == pc = "unpacked"

\* C1: after _extract_apk_contents returns, the members of every APK nested
\* at any depth in the APK are in temp_dir.
C1_NestedUnpackedRecursively ==
    Unpacked =>
        \A a \in ApksInside(apk.entries) : PathsOf(a.entries) \subseteq DOMAIN temp

\* C2 as stated: a path that nested APKs hold has, after the merges, the
\* content of the last nested APK that holds it.
C2_LastWriteWins ==
    Unpacked =>
        \A k \in 1..Len(nested_apks) :
            NestedFile(k).zip =>
                \A p \in PathsOf(NestedFile(k).entries) :
                    (\A l \in (k + 1)..Len(nested_apks) :
                        ~(NestedFile(l).zip /\ p \in PathsOf(NestedFile(l).entries)))
                    => temp[p] = GetInfo(NestedFile(k).entries, p)

\* C2 amended: the merge is first-write-wins.  A path the top-level APK
\* holds keeps the top-level content; any other path has the content of the
\* first nested APK, in list order, that holds it.
C2_FirstWriteWins ==
    Unpacked =>
        \A p \in DOMAIN temp :
            IF p \in PathsOf(apk.entries)
            THEN temp[p] = GetInfo(apk.entries, p)
            ELSE \E k \in 1..Len(nested_apks) :
                    /\ NestedFile(k).zip
                    /\ p \in PathsOf(NestedFile(k).entries)
                    /\ temp[p] = GetInfo(NestedFile(k).entries, p)
                    /\ \A l \in 1..(k - 1) :
                          ~(NestedFile(l).zip /\ p \in PathsOf(NestedFile(l).entries))

\* a nested APK held a path that was already in temp_dir with other content
C2_Witness ==
    /\ Unpacked
    /\ \E k \in 1..Len(nested_apks) :
          /\ NestedFile(k).zip
          /\ \E p \in PathsOf(NestedFile(k).entries) :
                temp[p] # GetInfo(NestedFile(k).entries, p)

\* how many members of the top-level APK have an .apk name
ApkMembers == Cardinality({k \in 1..Len(apk.entries) : IsApkName(apk.entries[k].path)})

\* C9: _extract_apk_contents returns or raises, and it opens no more
\* archives than the top-level APK and one per .apk member of it.
C9_UnpackTerminates ==
    /\ <>(pc \in {"unpacked", "raised"})
    /\ [](opened <= 1 + ApkMembers)

\* the method returned after unpacking two nested APKs
C9_Witness ==
    /\ Unpacked
    /\ opened >= 3

Warnings(stage) ==
    Cardinality({k \in 1..Len(log) : log[k] = Msg("warning", stage)})

\* C15: a nested APK that cannot be unpacked is logged as a warning and does
\* not stop the run: the method does not raise once the APK is open, every
\* other nested APK of the list is unpacked and merged, and each failure has
\* its warning.
C15_NestedFailureDoesNotStop ==
    /\ apk.zip => pc # "raised"
    /\ Unpacked =>
          \A k \in 1..Len(nested_apks) :
              NestedFile(k).zip => PathsOf(NestedFile(k).entries) \subseteq DOMAIN temp
    /\ (Unpacked /\ cb) =>
          Warnings("nested") =
              Cardinality({k \in 1..Len(nested_apks) : ~NestedFile(k).zip})

\* a corrupt nested APK was followed in the list by one whose members arrived
C15_Witness ==
    /\ Unpacked
    /\ cb
    /\ \E k \in 1..Len(nested_apks) : \E l \in (k + 1)..Len(nested_apks) :
          /\ ~NestedFile(k).zip
          /\ NestedFile(l).zip
          /\ NestedFile(l).entries # <<>>
          /\ PathsOf(NestedFile(l).entries) \subseteq DOMAIN temp

\* C16: when _extract_apk_contents returns, no staging folder _nested_<name>
\* is left in temp_dir, also for the nested APKs that could not be unpacked.
C16_NoStagingFolderLeft == Unpacked => staged = {}

----------------------------------------------------------------------------
(* Claims about the stages of extract_apk *)

Succeeded == pc = "done" /\ ret = "True"

\* the paths taken up by a stage
ProcessedIn(stage) ==
    {processed[k].path : k \in {n \in 1..Len(processed) : processed[n].stage = stage}}

\* a file larger than 1 KB below a folder named Data
IsDataFile(p) == temp[p].big /\ \E k \in 1..Len(p.dir) : p.dir[k] = "Data"

IsBundle(p) == p.ext \in {".assetbundle", ".bundle", ".unity3d"}

\* C4: processing is "catch exception, move on": when the Data stage is over
\* every Data file was taken up, when the AssetBundle stage is over every
\* AssetBundle was, whichever of them raised, and the run goes on to return True.
C4_CatchAndMoveOn ==
    /\ pc \in {"assets", "resources", "reports", "done"}
          => \A p \in DOMAIN temp : IsDataFile(p) => p \in ProcessedIn("data")
    /\ pc \in {"resources", "reports", "done"}
          => \A p \in DOMAIN temp : IsBundle(p) => p \in ProcessedIn("assets")
    /\ (pc = "done" /\ apk.zip) => ret = "True"

\* a container UnityPy rejected was followed by another one in the same stage
C4_Witness ==
    /\ Succeeded
    /\ unitypy
    /\ \E k \in 1..Len(processed) : \E l \in (k + 1)..Len(processed) :
          /\ ~temp[processed[k].path].loads
          /\ processed[l].stage = processed[k].stage
          /\ processed[l].path # processed[k].path

IsTexture(p) == p.ext \in {".png", ".jpg", ".jpeg", ".tga"}
IsModel(p) == p.ext \in {".obj", ".fbx"}
IsAudio(p) == p.ext \in {".mp3", ".wav", ".ogg"}
IsIcon(p) == p.ext = ".png" /\ p.stem \in {"icon", "launcher", "logo"}

\* a copy of file p of temp_dir lies under output_dir/<folder>
HasCopy(folder, p) ==
    \E q \in DOMAIN out : q.dir # <<>> /\ q.dir[1] = folder /\ out[q] = Origin(p, 0)

\* C5: after extract_apk returns True, every texture, model, audio and icon
\* file of the working tree has a copy in its categorized output folder.
C5_LooseResourcesCopied ==
    Succeeded =>
        \A p \in DOMAIN temp :
            /\ IsTexture(p) => HasCopy("textures", p)
            /\ IsModel(p) => HasCopy("3d_models", p)
            /\ IsAudio(p) => HasCopy("audio", p)
            /\ IsIcon(p) => HasCopy("icons", p)

ContainerDir(stage, p) ==
    IF stage = "data" THEN <<"unity_data", p.stem>>
    ELSE <<"unity_assets">> \o p.dir \o <<p.stem>>

\* the name a file gets from an object name: / and the like become _
FileNameOf(name) == IF name = "a/b" THEN "a_b" ELSE name

\* the containers UnityPy loaded, as [stage, path]
Loaded ==
    {processed[k] : k \in {n \in 1..Len(processed) : temp[processed[n].path].loads}}

\* C7 as stated: every Mesh, Texture2D, AudioClip and TextAsset object the
\* library can read in a loaded container has an output file of its own.
C7_AllFourKindsExported ==
    (Succeeded /\ unitypy) =>
        \A c \in Loaded :
            \A n \in 1..Len(temp[c.path].objs) :
                temp[c.path].objs[n].ok
                    => \E q \in DOMAIN out : out[q] = Origin(c.path, n)

\* C7 amended: only meshes and textures are pulled out.  Every readable Mesh
\* has its .obj file and, when Pillow is there, every readable Texture2D its
\* .png file, in the container's folder under the sanitized object name;
\* AudioClip and TextAsset objects (and textures without Pillow) have no file.
C7_MeshesAndTexturesExported ==
    (Succeeded /\ unitypy) =>
        \A c \in Loaded :
            \A n \in 1..Len(temp[c.path].objs) :
                LET o == temp[c.path].objs[n]
                    dir == ContainerDir(c.stage, c.path)
                IN /\ (o.ok /\ o.type = "Mesh")
                        => P(dir \o <<"meshes">>, FileNameOf(o.name), ".obj")
                              \in DOMAIN out
                   /\ (o.ok /\ o.type = "Texture2D" /\ pillow)
                        => P(dir \o <<"textures">>, FileNameOf(o.name), ".png")
                              \in DOMAIN out
                   /\ (o.type \in {"AudioClip", "TextAsset"}
                       \/ (o.type = "Texture2D" /\ ~pillow))
                        => ~\E q \in DOMAIN out : out[q] = Origin(c.path, n)

\* a loaded container held a readable texture and Pillow was there
C7_Witness ==
    /\ Succeeded
    /\ unitypy
    /\ pillow
    /\ \E c \in Loaded :
          \E n \in 1..Len(temp[c.path].objs) :
              /\ temp[c.path].objs[n].ok
              /\ temp[c.path].objs[n].type = "Texture2D"
              /\ \E q \in DOMAIN out : out[q] = Origin(c.path, n)

\* C10: for the same APK, the files under output_dir, the statistics, the
\* reports and the value extract_apk returns are the same with callbacks and
\* without (the same report write failing in both runs, if any).
C10_SameWithoutCallbacks ==
    (pc = "done" /\ first # <<>> /\ first[1].write_failed = write_failed) =>
        /\ out = first[1].out
        /\ stats = first[1].stats
        /\ reports = first[1].reports
        /\ ret = first[1].ret

\* both runs are over, files were written and the callbacks were called
C10_Witness ==
    /\ pc = "done"
    /\ first # <<>>
    /\ first[1].write_failed = write_failed
    /\ ret = "True"
    /\ DOMAIN out # {}
    /\ first[1].log # <<>>
    /\ log = <<>>

\* C14: _merge_directories copies a file only if it is not there yet: every
\* file dst_dir held before the call has the same content after it, src_dir is
\* as it was, and every file of src_dir whose relative path was absent from
\* dst_dir is in dst_dir at that path afterwards.
C14_MergeFrame ==
    merge_args # <<>> =>
        LET src == merge_args[1].src
            dst == merge_args[1].dst
        IN /\ \A q \in DOMAIN dst : q \in DOMAIN dst_dir /\ dst_dir[q] = dst[q]
           /\ src_dir = src
           /\ \A q \in (DOMAIN src) \ (DOMAIN dst) :
                 q \in DOMAIN dst_dir /\ dst_dir[q] = src[q]

\* a call that found one file of src_dir in dst_dir with other content, and
\* another file of src_dir, in a subfolder, missing there
C14_Witness ==
    /\ merge_args # <<>>
    /\ \E q \in DOMAIN merge_args[1].src :
          q \in DOMAIN merge_args[1].dst /\ merge_args[1].dst[q] # src_dir[q]
    /\ \E q \in DOMAIN merge_args[1].src :
          q \notin DOMAIN merge_args[1].dst /\ q.dir # <<>>

----------------------------------------------------------------------------
(* Claims about extract_apk as a whole *)

\* C11: extract_apk always returns True or False, and False exactly when
\* unpacking the top-level APK raised; a container UnityPy rejects or a report
\* write that raises leaves the result True.
C11_FalseOnlyWhenUnpackRaised ==
    /\ ret \in {"none", "True", "False"}
    /\ pc = "done" => ret \in {"True", "False"}
    /\ pc = "done" => (ret = "False" <=> ~apk.zip)

\* a run returned True although a container was rejected and a report write raised
C11_Witness ==
    /\ Succeeded
    /\ unitypy
    /\ write_failed # "none"
    /\ \E k \in 1..Len(processed) : ~temp[processed[k].path].loads

ResourceFolders == {"textures", "icons", "audio"}

\* C12: the stages run in the order unpack, Data files, AssetBundles, loose
\* resources, reports, each after the one before it is over; when the unpack
\* stage raised no later stage runs and no report is written.
C12_StagesInOrder ==
    /\ \A k \in 1..Len(processed) : \A l \in 1..Len(processed) :
          (processed[k].stage = "data" /\ processed[l].stage = "assets") => k < l
    /\ processed # <<>> => pc \in {"assets", "resources", "reports", "done"}
    /\ (\E k \in 1..Len(processed) : processed[k].stage = "assets")
          => pc \in {"resources", "reports", "done"}
    /\ (\E q \in DOMAIN out : q.dir # <<>> /\ q.dir[1] \in ResourceFolders)
          => pc \in {"reports", "done"}
    /\ (DOMAIN reports # {} \/ write_failed # "none") => pc = "done"
    /\ ~apk.zip => (processed = <<>> /\ out = EmptyOut /\ reports = NoReports)

\* a run in which every stage had something to do
C12_Witness ==
    /\ Succeeded
    /\ \E k \in 1..Len(processed) : processed[k].stage = "data"
    /\ \E k \in 1..Len(processed) : processed[k].stage = "assets"
    /\ \E q \in DOMAIN out : q.dir # <<>> /\ q.dir[1] \in ResourceFolders
    /\ DOMAIN reports = {"json", "html"}

\* how often a stage took up the file at p
TimesProcessed(stage, p) ==
    Cardinality({k \in 1..Len(processed) :
                    processed[k] = [stage |-> stage, path |-> p]})

\* the readable meshes of an object list
MeshesIn(objs) ==
    Cardinality({k \in 1..Len(objs) : objs[k].ok /\ objs[k].type = "Mesh"})

\* the readable meshes of the loaded containers among the files S
RECURSIVE TotalMeshes(_)
TotalMeshes(S) ==
    IF S = {} THEN 0
    ELSE LET p == CHOOSE q \in S : TRUE
         IN (IF temp[p].loads THEN MeshesIn(temp[p].objs) ELSE 0)
            + TotalMeshes(S \ {p})

DataFiles == {p \in DOMAIN temp : IsDataFile(p)}

\* C13: when the Data stage is over, every file larger than 1 KB under a Data
\* folder was taken up exactly once, stats['data_files'] counts it at most
\* once and its meshes were added to the statistics once.
C13_DataFileProcessedOnce ==
    (pc = "assets" /\ apk.zip) =>
        /\ \A p \in DataFiles : TimesProcessed("data", p) = 1
        /\ stats.data_files <= Cardinality(DataFiles)
        /\ unitypy => stats.models = TotalMeshes(DataFiles)

\* the mesh files under output_dir
MeshFiles ==
    {q \in DOMAIN out : q.ext = ".obj" /\ q.dir # <<>> /\ q.dir[Len(q.dir)] = "meshes"}

\* C17: after extract_apk returns, stats['models'] is the number of distinct
\* mesh .obj files the run wrote under output_dir.
C17_ModelsCountsMeshFiles == Succeeded => stats.models = Cardinality(MeshFiles)

\* C22: when the loose-resource stage is over, every texture, audio and icon
\* file of the working tree still has its own copy at the path it was copied
\* to: no other source file of the stage was written over it.
C22_ResourceNotOverwritten ==
    (pc \in {"reports", "done"} /\ apk.zip) =>
        \A p \in DOMAIN temp :
            /\ IsTexture(p) => out[Dest("textures", p)] = Origin(p, 0)
            /\ IsAudio(p) => out[Dest("audio", p)] = Origin(p, 0)
            /\ IsIcon(p) => out[Dest("icons", p)] = Origin(p, 0)

----------------------------------------------------------------------------
(* Claims about the windows *)

\* C3: at most one extraction worker thread is running at any time: no
\* ExtractionThread is started while one started before is still running.
C3_OneWorkerAtATime ==
    Cardinality({k \in 1..Len(threads) : Running(threads[k])}) <= 1

\* C8: after _extraction_completed has run, the results list has an entry
\* for the output folder of that extraction (as long as the folder is
\* there), whichever output folder the user chose.
C8_CompletedRunIsListed ==
    (slot.name = "_extraction_completed" /\ fs[Loc(slot.arg)]) =>
        /\ Loc(slot.arg).cwd
        /\ \E k \in 1..Len(results_list) : results_list[k] = slot.arg.name

\* C18: every ExtractionThread.run of main.py that was not terminated emits
\* exactly one terminal signal by the time it returns and none twice:
\* extraction_finished if and only if the extractor was built and extract_apk
\* returned True, extraction_error otherwise.
C18_OneTerminalSignal ==
    \A k \in 1..Len(threads) :
        LET t == threads[k]
        IN /\ Len(t.emitted) <= 1
           /\ t.state \in {"started", "extracting"} => t.emitted = <<>>
           /\ t.state = "finished" =>
                 /\ Len(t.emitted) = 1
                 /\ t.emitted[1] \in {"extraction_finished", "extraction_error"}
                 /\ t.emitted[1] = "extraction_finished" <=>
                        (t.success # "raised"
                         /\ ExtractApkResult(FileAt(t.apk_path)) = "True")

C18_Witness ==
    /\ \E k \in 1..Len(threads) :
          threads[k].state = "finished" /\ threads[k].success = "True"
    /\ \E k \in 1..Len(threads) :
          threads[k].state = "finished" /\ threads[k].success \in {"False", "raised"}

\* C19: in every state of main.py's window the cancel button is enabled
\* exactly when the select-APK button, the browse button and the output-path
\* field are disabled, and the start button is enabled only if an APK path is
\* set and the cancel button is disabled.
C19_UiLocking ==
    /\ enabled.cancel_btn <=> ~enabled.select_apk_btn
    /\ enabled.cancel_btn <=> ~enabled.browse_output_btn
    /\ enabled.cancel_btn <=> ~enabled.output_path_edit
    /\ enabled.extract_btn => (apk_path # None /\ ~enabled.cancel_btn)

C19_Witness ==
    /\ enabled.cancel_btn
    /\ ~enabled.extract_btn
    /\ apk_path # None
    /\ \E k \in 1..Len(threads) : Running(threads[k])

\* C20: no _extraction_completed or _extraction_error runs for an extraction
\* that _cancel_extraction has terminated and reported as cancelled.
C20_NoHandlerAfterCancel ==
    slot.name \in {"_extraction_completed", "_extraction_error"} =>
        threads[slot.thread].state # "terminated"

\* C21: no step of the window removes the output folder of an extraction
\* whose worker is still writing into it.
C21_RunningOutputNotDeleted ==
    [][\A k \in 1..Len(threads) :
          (threads[k].state = "extracting" /\ fs[Loc(threads[k].output_dir)])
              => fs'[Loc(threads[k].output_dir)]]_vars

====
